---- MODULE Spec2Model ----
(***************************************************************************)
(* A model of src/src/scope.rs: the async scope of moro-local.             *)
(*                                                                         *)
(* The scope owns a registry  futures  (a FuturesUnordered behind a        *)
(* RefCell) and a termination slot  terminated  (an Option behind a        *)
(* RefCell).  poll_jobs is modelled step by step (pc), because tasks run   *)
(* *inside* the registry poll of line 47, while the RefMut taken in that   *)
(* line is still alive: a task that calls spawn (line 129), directly or    *)
(* through terminate (line 105), finds the RefCell already mutably         *)
(* borrowed and borrow_mut panics.  The panic unwinds out of poll_jobs     *)
(* unless the calling task contains it (std::panic::catch_unwind around    *)
(* the synchronous call), in which case the task goes on with the slot     *)
(* already set by line 101.                                                *)
(***************************************************************************)
EXTENDS Naturals, Integers, FiniteSets, Sequences, TLC

\* Bound of the model: the tasks spawned in one scope.
MaxTasks == 3

\* Option::None of the termination slot; two termination values tell the
\* first value from a later one.
None == 0
\* A oneshot channel: nothing sent yet / sender dropped without sending.
Empty == 0
Closed == -1

Tasks == 1..MaxTasks
Values == {1, 2}

\* The value the future of task t produces (`future.await` at line 130).
TaskVal(t) == t

\* The futures a caller hands to spawn (line 113):
\*   "immediate"  a future whose result is available at its first poll
\*   "user"       any other future: what it does is chosen when it is polled
\* and the future terminate spawns at line 105, async { panic!() }: "panic".
UserKinds == {"immediate", "user"}

\* What a polled future does next:
\*   "yield"          suspend (Pending) until an outside event wakes it
\*   "spawn"          scope.spawn(async { .. }) from inside the task
\*   "terminate"      scope.terminate(v).await from inside the task
\*   "try_terminate"  scope.terminate(v) whose panic the task contains
\*   "return"         produce its value
\*   "panic"          panic!()
UserOps == {"yield", "spawn", "terminate", "try_terminate", "return"}

\* What a completing task finds at the other end of its channel: the holder
\* of the handle may have dropped it at any time before.
Receivers == {"held", "dropped"}

VARIABLES
    futures,      \* ids of the tasks in the registry (line 15)
    ready,        \* the registry's ready-to-run queue, a subset of futures
    borrowed,     \* the RefCell of line 15 is mutably borrowed
    terminated,   \* the termination slot (line 16)
    kind,         \* per task: the future it wraps, "none" before its spawn
    chan,         \* per task: the oneshot channel of line 127
    rx,           \* per task: the handle's receiver, "none" | "held" |
                  \* "dropped" (found dropped when the task sent)
    nextId,       \* the id the next spawned task gets
    pc,           \* where the driver is: "idle" or inside poll_jobs
    cur,          \* the task the registry is polling (0: none)
    ret, retVal,  \* what the last poll_jobs call returned
    outcome,      \* "running" | "terminated" | "done" | "fault" | "dropped"
    result,       \* the value of a "terminated" outcome
    body,         \* the scope body: "running" | "done"
    \* History of the current poll_jobs call.
    entryTerm, entryFutures, entryReady, polled, completions, preempt,
    \* History of the scope.
    advanced,     \* tasks the registry has polled at least once
    setCount,     \* times the slot went from empty to holding a value
    delivered,    \* times poll_jobs returned Ready(Some(_))
    termCalls,    \* terminate calls made: 0, 1, or 2 for two and more
    firstTerm,    \* the value of the first terminate call
    others,       \* tasks in the registry at the first terminate call,
                  \* the caller excluded
    lastTerm,     \* the last terminate call: slot before, after, fault
    reent,        \* the last spawn/terminate made inside a registry poll
    nestedTried, nestedAdmitted,
    cleared,      \* tasks a clear() dropped from the registry
    clears,       \* clear() calls made: 0, 1, or 2 for two and more
    quiesced      \* the last poll_jobs call that returned gave Ready(None)

regVars == <<futures, ready, borrowed>>
taskVars == <<kind, chan, rx, nextId>>
ctlVars == <<pc, cur, ret, retVal, outcome, result, body>>
callVars == <<entryTerm, entryFutures, entryReady, polled, completions, preempt>>
termHist == <<setCount, termCalls, firstTerm, others, lastTerm>>
nestHist == <<reent, nestedTried, nestedAdmitted>>
lifeHist == <<cleared, clears, quiesced>>
vars == <<regVars, terminated, taskVars, ctlVars, callVars, advanced,
          delivered, termHist, nestHist, lifeHist>>

NoPreempt == [v |-> None, polls |-> 0, compl |-> 0]
NoTerm == [before |-> None, after |-> None, fault |-> FALSE]

Init ==
    /\ futures = {} /\ ready = {} /\ borrowed = FALSE
    /\ terminated = None
    /\ kind = [t \in Tasks |-> "none"]
    /\ chan = [t \in Tasks |-> Empty]
    /\ rx = [t \in Tasks |-> "none"]
    /\ nextId = 1
    /\ pc = "idle" /\ cur = 0 /\ ret = "none" /\ retVal = None
    /\ outcome = "running" /\ result = None /\ body = "running"
    /\ entryTerm = None /\ entryFutures = {} /\ entryReady = {}
    /\ polled = 0 /\ completions = 0 /\ preempt = NoPreempt
    /\ advanced = {}
    /\ setCount = 0 /\ delivered = 0 /\ termCalls = 0 /\ firstTerm = None
    /\ others = {} /\ lastTerm = NoTerm
    /\ reent = "none" /\ nestedTried = 0 /\ nestedAdmitted = 0
    /\ cleared = {} /\ clears = 0 /\ quiesced = FALSE

----------------------------------------------------------------------------
\* The expressions of the code.

CanBorrowMut_Unchecked == TRUE
\* RefCell::borrow_mut on `futures` succeeds only when no borrow is alive.
CanBorrowMut == ~borrowed

TopTerminated_Never(slot) == FALSE
\* Line 43: `if let Some(r) = self.terminated.take().take()`.
TopTerminated(slot) == slot # None

SlotAfterTake_Keep(slot) == slot
\* Line 43: take() leaves None in the slot.
SlotAfterTake(slot) == None

Preempted_Never(slot) == FALSE
\* Line 49: `self.terminated.borrow().is_some()`.
Preempted(slot) == slot # None

SlotAfterCheck_Take(slot) == None
\* Line 49 only borrows the slot: it is left as it was.
SlotAfterCheck(slot) == slot

\* Lines 100-102: the slot is written only when it is empty.
TerminateSlot(slot, v) == IF slot = None THEN v ELSE slot

SendResult_Always(c, h, v) == v
SendResult_Lost(c, h, v) == c
\* Line 131: `let _ = tx.send(v)`: the value reaches the channel unless the
\* receiver was dropped, and the error of that case is ignored.
SendResult(c, h, v) == IF h = "held" THEN v ELSE c

ClearedRegistry_Keep(fs) == fs
\* Line 66: FuturesUnordered::clear leaves no task in the registry.
ClearedRegistry(fs) == {}

ClearedChan_All(fs, ch) == [t \in Tasks |-> Closed]
\* Line 66: each dropped wrapper drops its sender (tx of line 127); a
\* channel that already holds its value keeps it.
ClearedChan(fs, ch) ==
    [t \in Tasks |-> IF t \in fs /\ ch[t] = Empty THEN Closed ELSE ch[t]]

HandleResult_Pending(c) == IF c \in {Empty, Closed} THEN "pending" ELSE "value"
\* Lines 135-138: `match rx.await`: Ok(v) => v, Err(e) => panic!.
HandleResult(c) ==
    CASE c = Closed -> "fault"
      [] c = Empty -> "pending"
      [] OTHER -> "value"

RegistryDone_Idle(fs) == TRUE
\* Line 47: poll_next reports the end of the stream (None) only when the
\* registry holds no task; with tasks left and none ready it is Pending.
RegistryDone(fs) == fs = {}

\* What task t can do when the registry polls it.
Ops(t) ==
    CASE kind[t] = "panic" -> {"panic"}
      [] kind[t] = "immediate" -> {"return"}
      [] OTHER -> UserOps

----------------------------------------------------------------------------
\* spawn and terminate.

Admit_Eager(t, k) ==
    /\ futures' = futures \cup {t}
    /\ ready' = ready \cup {t}
    /\ kind' = [kind EXCEPT ![t] = k]
    /\ chan' = [chan EXCEPT ![t] = TaskVal(t)]
    /\ rx' = [rx EXCEPT ![t] = "held"]
    /\ nextId' = nextId + 1

\* Lines 127-139 once borrow_mut succeeded: a fresh channel, the wrapper
\* pushed into the registry (a pushed future is ready to run), the handle
\* returned to the caller.
Admit(t, k) ==
    /\ futures' = futures \cup {t}
    /\ ready' = ready \cup {t}
    /\ kind' = [kind EXCEPT ![t] = k]
    /\ chan' = [chan EXCEPT ![t] = Empty]
    /\ rx' = [rx EXCEPT ![t] = "held"]
    /\ nextId' = nextId + 1

\* Lines 100-102 with the bookkeeping of the call; caller is the calling
\* task, 0 for the body.
TerminateCall(v, caller) ==
    /\ terminated' = TerminateSlot(terminated, v)
    /\ setCount' = setCount + (IF terminated = None THEN 1 ELSE 0)
    /\ termCalls' = IF termCalls = 0 THEN 1 ELSE 2
    /\ firstTerm' = IF termCalls = 0 THEN v ELSE firstTerm
    /\ others' = IF termCalls = 0 THEN futures \ {caller} ELSE others

\* Lines 96-106 called while no registry poll is running.
Terminate(v) ==
    /\ nextId <= MaxTasks
    /\ CanBorrowMut
    /\ TerminateCall(v, 0)
    /\ lastTerm' = [before |-> terminated,
                    after |-> TerminateSlot(terminated, v), fault |-> FALSE]
    /\ Admit(nextId, "panic")
    /\ UNCHANGED <<borrowed, ctlVars, callVars, advanced, delivered, nestHist>>
    /\ UNCHANGED lifeHist

\* The body calls scope.spawn(future).
BodySpawn(k) ==
    /\ pc = "idle" /\ outcome = "running" /\ body = "running"
    /\ nextId <= MaxTasks
    /\ CanBorrowMut
    /\ Admit(nextId, k)
    /\ UNCHANGED <<borrowed, terminated, ctlVars, callVars, advanced,
                   delivered, termHist, nestHist>>
    /\ UNCHANGED lifeHist

\* The body calls scope.terminate(v).
BodyTerminate(v) ==
    /\ pc = "idle" /\ outcome = "running" /\ body = "running"
    /\ Terminate(v)

\* User code that runs while the finished scope is discarded (a destructor
\* of the body's state) calls scope.terminate(v).
LateTerminate(v) ==
    /\ pc = "idle" /\ outcome = "terminated"
    /\ Terminate(v)

\* The body runs to its end.
BodyFinish ==
    /\ pc = "idle" /\ outcome = "running" /\ body = "running"
    /\ body' = "done"
    /\ UNCHANGED <<regVars, terminated, taskVars, pc, cur, ret, retVal,
                   outcome, result, callVars, advanced, delivered, termHist,
                   nestHist>>
    /\ UNCHANGED lifeHist

\* An outside event wakes a suspended task: the registry puts it back on
\* its ready-to-run queue.
Wake(t) ==
    /\ pc = "idle" /\ outcome = "running"
    /\ t \in futures \ ready
    /\ ready' = ready \cup {t}
    /\ UNCHANGED <<futures, borrowed, terminated, taskVars, ctlVars,
                   callVars, advanced, delivered, termHist, nestHist>>
    /\ UNCHANGED lifeHist

\* Lines 65-67: every task is dropped without being resumed; a dropped task
\* drops its sender.  The scope is then no longer driven as a running
\* scope ("dropped"), though its owner may still call poll_jobs and clear.
Clear ==
    /\ pc = "idle"
    /\ CanBorrowMut
    /\ futures' = ClearedRegistry(futures)
    /\ ready' = ClearedRegistry(ready)
    /\ chan' = ClearedChan(futures, chan)
    /\ cleared' = cleared \cup futures
    /\ clears' = IF clears = 0 THEN 1 ELSE 2
    /\ outcome' = IF outcome = "running" THEN "dropped" ELSE outcome
    /\ UNCHANGED <<borrowed, terminated, kind, rx, nextId, pc, cur, ret,
                   retVal, result, body, callVars, advanced, delivered,
                   termHist, nestHist, quiesced>>

\* Lines 134-138, the handle of task t is awaited: a value is returned, a
\* closed channel panics ("unexpected error"), an empty one stays pending.
\* The panic ends whoever awaited the handle.
Await(t) ==
    /\ pc = "idle" /\ outcome \in {"running", "dropped"}
    /\ rx[t] = "held"
    /\ outcome' = IF HandleResult(chan[t]) = "fault"
                  THEN "abandoned" ELSE outcome
    /\ UNCHANGED <<regVars, terminated, taskVars, pc, cur, ret, retVal,
                   result, body, callVars, advanced, delivered, termHist,
                   nestHist, lifeHist>>

----------------------------------------------------------------------------
\* poll_jobs.

\* Line 40: the driver invokes poll_jobs.
PollJobs ==
    /\ pc = "idle" /\ outcome \in {"running", "dropped"}
    /\ pc' = "top"
    /\ entryTerm' = terminated
    /\ entryFutures' = futures /\ entryReady' = ready
    /\ UNCHANGED <<regVars, terminated, taskVars, cur, ret, retVal, outcome,
                   result, body, polled, completions, preempt, advanced,
                   delivered, termHist, nestHist>>
    /\ UNCHANGED lifeHist

\* Lines 43-45: the top of the outer loop.
PollTop ==
    /\ pc = "top"
    /\ IF TopTerminated(terminated)
       THEN /\ ret' = "Terminated" /\ retVal' = terminated
            /\ terminated' = SlotAfterTake(terminated)
            /\ delivered' = delivered + 1
            /\ pc' = "returned"
       ELSE /\ pc' = "next"
            /\ UNCHANGED <<ret, retVal, terminated, delivered>>
    /\ UNCHANGED <<regVars, taskVars, cur, outcome, result, body, callVars,
                   advanced, termHist, nestHist>>
    /\ UNCHANGED lifeHist

\* Line 47: borrow_mut and the registry's poll_next.  It takes one task off
\* the ready-to-run queue and polls it; with nothing ready it reports
\* Pending (ready! returns it, line 47), with no task left it reports the
\* end of the stream and poll_jobs returns Ready(None) (line 54).
PollNext ==
    /\ pc = "next"
    /\ IF ready # {}
       THEN \E t \in ready :
              /\ cur' = t /\ pc' = "run"
              /\ ready' = ready \ {t}
              /\ borrowed' = TRUE
              /\ polled' = polled + 1
              /\ advanced' = advanced \cup {t}
              /\ UNCHANGED <<ret, retVal>>
       ELSE /\ ret' = IF RegistryDone(futures) THEN "Quiescent" ELSE "Pending"
            /\ retVal' = None
            /\ pc' = "returned"
            /\ borrowed' = FALSE
            /\ UNCHANGED <<cur, ready, polled, advanced>>
    /\ UNCHANGED <<futures, terminated, taskVars, outcome, result, body,
                   entryTerm, entryFutures, entryReady, completions, preempt,
                   delivered, termHist, nestHist>>
    /\ UNCHANGED lifeHist

\* A panic inside the task the registry is polling, not contained by the
\* task: the registry releases the task (its sender is dropped), the RefMut
\* of line 47 is dropped and the panic leaves poll_jobs.
Unwind(t) ==
    /\ futures' = futures \ {t}
    /\ ready' = ready \ {t}
    /\ chan' = [chan EXCEPT ![t] = IF chan[t] = Empty THEN Closed ELSE chan[t]]
    /\ borrowed' = FALSE
    /\ pc' = "idle" /\ cur' = 0
    /\ ret' = "Unwind" /\ retVal' = None
    /\ outcome' = "fault"
    /\ UNCHANGED <<kind, rx, nextId, result, body>>

\* The task goes on inside the same poll.
Continue(t) ==
    UNCHANGED <<regVars, taskVars, ctlVars>>

\* The task suspends: its poll returns Pending and poll_next goes on with
\* the next ready task, inside the same borrow.
RunYield(t) ==
    /\ pc' = "next" /\ cur' = 0
    /\ UNCHANGED <<regVars, terminated, taskVars, ret, retVal,
                   outcome, result, body, completions, preempt, termHist,
                   nestHist>>

\* Lines 111-132 called by the task being polled: borrow_mut of line 129.
RunSpawn(t) ==
    /\ nestedTried' = nestedTried + 1
    /\ IF CanBorrowMut /\ nextId <= MaxTasks
       THEN /\ Admit(nextId, "immediate")
            /\ nestedAdmitted' = nestedAdmitted + 1
            /\ reent' = "ok"
            /\ UNCHANGED <<borrowed, ctlVars>>
       ELSE /\ Unwind(t)
            /\ reent' = "fault"
            /\ UNCHANGED nestedAdmitted
    /\ UNCHANGED <<terminated, completions, preempt, termHist>>

\* Lines 96-106 called by the task being polled: the slot is written
\* (lines 100-102), then spawn's borrow_mut (line 105 -> line 129) panics.
\* caught: the task contains the panic and goes on.
RunTerminate(t, v, caught) ==
    /\ TerminateCall(v, t)
    /\ IF CanBorrowMut /\ nextId <= MaxTasks
       THEN /\ Admit(nextId, "panic")
            /\ reent' = "ok"
            /\ lastTerm' = [before |-> terminated,
                            after |-> TerminateSlot(terminated, v),
                            fault |-> FALSE]
            /\ pc' = "next" /\ cur' = 0
            /\ UNCHANGED <<borrowed, ret, retVal, outcome, result, body>>
       ELSE /\ reent' = "fault"
            /\ lastTerm' = [before |-> terminated,
                            after |-> TerminateSlot(terminated, v),
                            fault |-> TRUE]
            /\ IF caught THEN Continue(t) ELSE Unwind(t)
    /\ UNCHANGED <<completions, preempt, nestedTried, nestedAdmitted>>

\* Line 105's body: panic!().
RunPanic(t) ==
    /\ Unwind(t)
    /\ UNCHANGED <<terminated, completions, preempt, termHist, nestHist>>

\* Lines 130-131: the future is done, its value is sent, the wrapper
\* completes and leaves the registry; poll_next reports one completion.
RunReturn(t, h) ==
    /\ chan' = [chan EXCEPT ![t] = SendResult(chan[t], h, TaskVal(t))]
    /\ rx' = [rx EXCEPT ![t] = h]
    /\ futures' = futures \ {t}
    /\ completions' = completions + 1
    /\ preempt' = IF terminated # None
                  THEN [v |-> terminated, polls |-> polled,
                        compl |-> completions + 1]
                  ELSE preempt
    /\ pc' = "check" /\ cur' = 0
    /\ UNCHANGED <<ready, borrowed, terminated, kind, nextId, ret,
                   retVal, outcome, result, body, termHist, nestHist>>

\* The registry polls the task it took off the queue (line 47; the wrapper
\* of lines 129-132 runs the future).
TaskStep ==
    /\ pc = "run"
    /\ \E op \in Ops(cur), h \in Receivers, v \in Values :
         CASE op = "yield" -> RunYield(cur)
           [] op = "spawn" -> RunSpawn(cur)
           [] op = "terminate" -> RunTerminate(cur, v, FALSE)
           [] op = "try_terminate" -> RunTerminate(cur, v, TRUE)
           [] op = "panic" -> RunPanic(cur)
           [] OTHER -> RunReturn(cur, h)
    /\ UNCHANGED <<entryTerm, entryFutures, entryReady, polled, advanced,
                   delivered>>
    /\ UNCHANGED lifeHist

\* Lines 48-51: after a completion, `continue 'outer` when the slot is set,
\* else the inner loop polls the registry again.  The RefMut of line 47 is
\* dropped either way.
PollCheck ==
    /\ pc = "check"
    /\ pc' = IF Preempted(terminated) THEN "top" ELSE "next"
    /\ terminated' = SlotAfterCheck(terminated)
    /\ borrowed' = FALSE
    /\ UNCHANGED <<futures, ready, taskVars, cur, ret, retVal, outcome,
                   result, body, callVars, advanced, delivered, termHist,
                   nestHist>>
    /\ UNCHANGED lifeHist

\* The caller of poll_jobs takes the returned value: Ready(Some(v)) ends the
\* scope with v and poll_jobs is not invoked again (lines 34-36);
\* Ready(None) ends it once the body is done; otherwise it polls again
\* later (lines 32, 38-39).
Driver ==
    /\ pc = "returned"
    /\ pc' = "idle"
    /\ outcome' = CASE ret = "Terminated" -> "terminated"
                    [] ret = "Quiescent" /\ body = "done"
                         /\ outcome = "running" -> "done"
                    [] OTHER -> outcome
    /\ quiesced' = (ret = "Quiescent")
    /\ result' = IF ret = "Terminated" THEN retVal ELSE result
    /\ ret' = "none" /\ retVal' = None
    /\ entryTerm' = None /\ entryFutures' = {} /\ entryReady' = {}
    /\ polled' = 0 /\ completions' = 0 /\ preempt' = NoPreempt
    /\ UNCHANGED <<regVars, terminated, taskVars, cur, body, advanced,
                   delivered, termHist, nestHist, cleared, clears>>

PollStep == PollTop \/ PollNext \/ TaskStep \/ PollCheck \/ Driver

Next ==
    \/ \E k \in UserKinds : BodySpawn(k)
    \/ \E v \in Values : BodyTerminate(v)
    \/ \E v \in Values : LateTerminate(v)
    \/ \E t \in Tasks : Wake(t)
    \/ \E t \in Tasks : Await(t)
    \/ BodyFinish
    \/ Clear
    \/ PollJobs
    \/ PollTop
    \/ PollNext
    \/ TaskStep
    \/ PollCheck
    \/ Driver

Spec == Init /\ [][Next]_vars

\* poll_jobs is a synchronous call: once invoked it runs to its return.
FairSpec == Spec /\ WF_vars(PollStep)

----------------------------------------------------------------------------
\* The outcomes a driver that keeps polling arrives at (a scope dropped by
\* its owner before that is "dropped").
Settled == outcome \in {"terminated", "done", "fault"}

\* C1: once a task (the body or a spawned task) has called terminate(v) on
\* a scope whose slot was empty, the outcome the polling driver arrives at
\* is Terminated(v).
C1_TerminateDecidesOutcome ==
    (termCalls > 0 /\ Settled) => (outcome = "terminated" /\ result = firstTerm)

\* C2: a poll_jobs call invoked while the slot holds v returns Terminated(v)
\* at once: it never reaches the registry poll, advances no task, leaves
\* the registry as it was and the slot empty.
C2_TerminatedAtEntry ==
    /\ pc \in {"next", "run", "check"} => entryTerm = None
    /\ (pc = "returned" /\ entryTerm # None) =>
          /\ ret = "Terminated" /\ retVal = entryTerm
          /\ polled = 0 /\ completions = 0
          /\ futures = entryFutures /\ ready = entryReady
          /\ terminated = None

\* A call entered with the slot set has returned while tasks were ready.
C2_Witness ==
    pc = "returned" /\ entryTerm # None /\ ready # {} /\ ret = "Terminated"

\* C3: when the registry reports a completion while the slot holds v, the
\* same poll_jobs call returns Terminated(v), and between that completion
\* and the return the registry is not polled again and reports no further
\* completion.
C3_RecheckAfterCompletion ==
    preempt.v # None =>
        /\ pc \in {"check", "top", "returned"}
        /\ polled = preempt.polls
        /\ completions = preempt.compl
        /\ pc = "returned" => (ret = "Terminated" /\ retVal = preempt.v)

\* A completion was reported with the slot set, and the call returned
\* Terminated while another task was still ready to run.
C3_Witness ==
    pc = "returned" /\ preempt.v # None /\ ready # {} /\ ret = "Terminated"

\* C4: a terminate call that finds the slot holding a leaves the slot as it
\* is and raises no error, and after two terminate calls the outcome is
\* Terminated(a) for the first call's a.
C4_FirstTerminateWins ==
    /\ lastTerm.before # None =>
          (lastTerm.after = lastTerm.before /\ ~lastTerm.fault)
    /\ (termCalls >= 2 /\ Settled) =>
          (outcome = "terminated" /\ result = firstTerm)

C6_OthersNeverDeliver ==
    \A t \in others : chan[t] \in {Empty, Closed}

C8_ReentrantCallTolerated == reent # "fault"

\* C9: every task spawned from within a running task is admitted into the
\* registry.
C9_NestedSpawnAdmitted == nestedAdmitted = nestedTried

\* Every task with a live handle has delivered its own value.
AllDelivered ==
    \A t \in Tasks :
        (kind[t] = "immediate" /\ rx[t] = "held") => chan[t] = TaskVal(t)

\* C10: a poll_jobs call on a registry holding only tasks whose results are
\* immediately available, with no terminate call made, returns Quiescent,
\* and then every such task's channel holds the value its own task produced.
C10_ImmediateTasksQuiesce ==
    (/\ pc = "top" /\ termCalls = 0 /\ futures # {}
     /\ \A t \in futures : kind[t] = "immediate")
      ~> (pc = "returned" /\ ret = "Quiescent" /\ AllDelivered)

\* MaxTasks immediate tasks were polled to Quiescent in one call and every
\* channel holds its task's value.
C10_Witness ==
    /\ pc = "returned" /\ ret = "Quiescent" /\ termCalls = 0
    /\ entryFutures = Tasks
    /\ \A t \in Tasks : kind[t] = "immediate" /\ chan[t] = TaskVal(t)

\* A channel that holds the value its task sent.
HasValue(t) == chan[t] \notin {Empty, Closed}

\* C11: a result channel holds a value only if its task was advanced by
\* the registry poll of poll_jobs and ran to completion there (it has left
\* the registry, and the value is the task's own); a task that spawn has
\* registered and no poll has advanced yet has an empty channel.
C11_ValueOnlyAfterPolledCompletion ==
    \A t \in Tasks :
        /\ HasValue(t) =>
              (t \in advanced /\ t \notin futures /\ chan[t] = TaskVal(t))
        /\ (t \in futures /\ t \notin advanced) => chan[t] = Empty

C11_Witness ==
    /\ \E t \in Tasks : HasValue(t) /\ t \in advanced
    /\ \E u \in futures : u \notin advanced /\ kind[u] # "panic"

\* C12: every call of spawn succeeds: the step that makes the call (by the
\* body, or by a task inside a poll) adds exactly the new entry to the
\* registry, ready to run, with a fresh empty channel and a held handle,
\* leaves the termination slot and the entries already there unchanged,
\* and raises no fault.
C12_SpawnAlwaysSucceeds ==
    [][(\/ nestedTried' # nestedTried
        \/ (nextId' # nextId /\ kind'[nextId] \in UserKinds))
         => /\ nextId' = nextId + 1
            /\ futures' = futures \cup {nextId}
            /\ ready' = ready \cup {nextId}
            /\ chan'[nextId] = Empty /\ rx'[nextId] = "held"
            /\ terminated' = terminated
            /\ outcome' = outcome]_vars

\* C13: a clear() leaves the registry empty, and a task that a clear
\* dropped is never in the registry again, is never the task being polled,
\* and never has a value in its channel.
C13_ClearedTasksStayDropped ==
    [][/\ cleared' # cleared => (futures' = {} /\ ready' = {})
       /\ \A t \in cleared' :
             /\ t \notin futures' /\ t \notin ready' /\ cur' # t
             /\ chan'[t] = Closed
             /\ t \in cleared => ((t \in advanced') <=> (t \in advanced))
      ]_vars

C13_Witness ==
    /\ cleared # {} /\ cleared \ advanced # {}
    /\ pc = "returned" /\ ret = "Quiescent"

\* C14: a clear() of an empty registry (in particular a second clear()
\* right after a first) changes nothing of the scope: registry, channels,
\* handles, slot and borrow flag stay as they are, and no fault is raised.
C14_ClearIdempotent ==
    [][(clears' # clears /\ futures = {})
         => /\ futures' = futures /\ ready' = ready /\ borrowed' = borrowed
            /\ chan' = chan /\ rx' = rx /\ kind' = kind
            /\ terminated' = terminated
            /\ cleared' = cleared
            /\ outcome' \in {outcome, "dropped"}]_vars

C14_Witness ==
    /\ clears = 2 /\ cleared # {}
    /\ \E t \in Tasks : HasValue(t)

\* C15: the handle of a task whose registry entry a clear() dropped before
\* the task sent its result never yields a value and is never left
\* pending: awaiting it raises the fault.
C15_AbandonedHandleFaults ==
    \A t \in cleared :
        /\ HandleResult(chan[t]) = "fault"
        /\ (outcome = "abandoned" => \E u \in Tasks :
               rx[u] = "held" /\ HandleResult(chan[u]) = "fault")

C15_Witness == outcome = "abandoned" /\ cleared # {}

\* C16: a poll_jobs call made after a call that returned Ready(None) runs
\* the tasks spawned in between: it returns Ready(None) again only when
\* every task it found in the registry was advanced and has left it.
C16_QuiescentNotFinal ==
    (quiesced /\ pc = "returned" /\ ret = "Quiescent") =>
        /\ futures = {}
        /\ \A t \in entryFutures : t \in advanced /\ t \notin futures

C16_Witness ==
    /\ quiesced /\ pc = "returned" /\ ret = "Quiescent"
    /\ entryFutures # {}

\* C17: when a task completes and its handle was discarded, the send is
\* ignored (the channel stays as it was), the task leaves the registry
\* and counts as a completion, the poll goes on to the slot check of line
\* 49 as after any completion, and no fault is raised.
C17_SendToDroppedHandleIgnored ==
    [][\A t \in Tasks :
         (rx[t] = "held" /\ rx'[t] = "dropped")
           => /\ chan'[t] = chan[t]
              /\ t \in futures /\ futures' = futures \ {t}
              /\ completions' = completions + 1
              /\ pc' = "check"
              /\ outcome' = outcome /\ ret' = ret]_vars

C17_Witness ==
    /\ pc = "returned" /\ ret = "Quiescent"
    /\ \E t \in Tasks : rx[t] = "dropped" /\ chan[t] = Empty
    /\ \E t \in Tasks : rx[t] = "held" /\ HasValue(t)

\* C18: poll_jobs returns Ready(None) only with an empty registry and an
\* empty termination slot.
C18_QuiescentOnlyWhenEmpty ==
    (pc = "returned" /\ ret = "Quiescent") =>
        (futures = {} /\ ready = {} /\ terminated = None)

C18_Witness ==
    /\ pc = "returned" /\ ret = "Quiescent"
    /\ completions >= 2 /\ advanced # entryFutures
    /\ futures = {} /\ terminated = None

\* C19: a poll_jobs call during which the slot was set and no completion
\* was reported ends by returning Pending with the slot still set.
C19_SetWithoutCompletionPends ==
    (/\ pc \in {"returned", "idle"} /\ ret # "none"
     /\ entryTerm = None /\ terminated # None /\ completions = 0)
      => ret = "Pending"

====
